---------------------------- MODULE Spec2Model ----------------------------
(***************************************************************************)
(* Model of the Reaction plugin loader, src/.reaction/run/loadPlugins.mjs. *)
(*                                                                         *)
(* A JavaScript string is a sequence of one-character strings, so that the *)
(* string operations of the loader (concatenation, String.replace,         *)
(* String.split, path.relative) are computed on characters as the code     *)
(* computes them.                                                          *)
(***************************************************************************)
EXTENDS Integers, Sequences, FiniteSets, TLC

(***************************************************************************)
(* Bounds of the model.                                                    *)
(***************************************************************************)
\* most plugin directories in the whole plugin tree (all three tiers)
MaxDirs == 2
\* most artifact files the loader finds in the plugin tree
MaxFiles == 3
\* most plugin directories in the trees that are loaded on every host
MaxDirsAnyHost == 1
\* most runs of loadPlugins, one after the other, over the same plugin tree
MaxRuns == 2
\* most documents in the Products collection
MaxProducts == 3
\* the largest copy number in the titles and handles stored or passed
MaxCopyNumber == 2
\* most documents the Products collection grows to by cloning
MaxStored == 6
\* the longest array of _ids passed to products/archiveProduct
MaxPassed == 2
\* most calls of products/updateProductTags in flight at a time
MaxCalls == 2
\* most documents of the Tags collection
MaxTags == 2
\* most hashtags the products hold together
MaxHashtags == 2

(***************************************************************************)
(* String helpers.                                                         *)
(***************************************************************************)
\* s.indexOf(pat): the first position where pat occurs in s, 0 when absent
IndexOf(s, pat) ==
  LET hits == { i \in 1..(Len(s) - Len(pat) + 1) : SubSeq(s, i, i + Len(pat) - 1) = pat }
  IN  IF hits = {} THEN 0 ELSE CHOOSE i \in hits : \A j \in hits : i <= j

\* s.includes(pat)
Includes(s, pat) == IndexOf(s, pat) # 0

\* s.replace(pat, rep) with a string pattern: only the FIRST occurrence
ReplaceFirst(s, pat, rep) ==
  LET i == IndexOf(s, pat)
  IN  IF i = 0 THEN s
      ELSE SubSeq(s, 1, i - 1) \o rep \o SubSeq(s, i + Len(pat), Len(s))

\* s.replace(/\\/g, '/'): every backslash becomes a forward slash
ReplaceBackslashes(s) == [i \in 1..Len(s) |-> IF s[i] = "\\" THEN "/" ELSE s[i]]

\* s.split(pat)[0]: the part of s before the first occurrence of pat
SplitHead(s, pat) ==
  LET i == IndexOf(s, pat)
  IN  IF i = 0 THEN s ELSE SubSeq(s, 1, i - 1)

\* the non-empty segments of path s between the separator characters seps
RECURSIVE Segments(_, _)
Segments(s, seps) ==
  IF s = <<>> THEN <<>>
  ELSE LET cut == { i \in 1..Len(s) : s[i] \in seps }
           n   == IF cut = {} THEN Len(s) + 1
                  ELSE CHOOSE i \in cut : \A j \in cut : i <= j
           hd  == SubSeq(s, 1, n - 1)
           tl  == Segments(SubSeq(s, n + 1, Len(s)), seps)
       IN  IF hd = <<>> THEN tl ELSE <<hd>> \o tl

\* segs.join(sep)
RECURSIVE Join(_, _)
Join(segs, sep) ==
  IF segs = <<>> THEN <<>>
  ELSE IF Len(segs) = 1 THEN segs[1]
  ELSE segs[1] \o <<sep>> \o Join(Tail(segs), sep)

\* the path separators the host's path module recognises, and the one it emits
Separators(host) == IF host = "win32" THEN {"/", "\\"} ELSE {"/"}
Sep(host) == IF host = "win32" THEN "\\" ELSE "/"

\* path.relative(from, to) for two absolute paths without '.' or '..'
\* segments: both are resolved to their segments, the common leading
\* segments are dropped, and each remaining segment of from becomes '..'
relative(host, from, to) ==
  LET f  == Segments(from, Separators(host))
      t  == Segments(to, Separators(host))
      same == { n \in 0..Len(f) : n <= Len(t) /\ SubSeq(f, 1, n) = SubSeq(t, 1, n) }
      c  == CHOOSE n \in same : \A m \in same : m <= n
      up == [i \in 1..(Len(f) - c) |-> <<".", ".">>]
  IN  Join(up \o SubSeq(t, c + 1, Len(t)), Sep(host))

(***************************************************************************)
(* String constants of the loader.                                         *)
(***************************************************************************)
\* the message written at the top of a plugins file; its text is held as
\* one symbol because nothing in the loader looks inside it
importFileMessage == <<"/** DO NOT EDIT THIS FILE MANUALLY ... reset at each startup. */">>

ImportsPlugins == <<"/", "i", "m", "p", "o", "r", "t", "s", "/", "p", "l", "u", "g", "i", "n", "s", "/">>
ClientIndexJs == <<"/", "c", "l", "i", "e", "n", "t", "/", "i", "n", "d", "e", "x", ".", "j", "s">>
ServerIndexJs == <<"/", "s", "e", "r", "v", "e", "r", "/", "i", "n", "d", "e", "x", ".", "j", "s">>
RegisterJs == <<"/", "r", "e", "g", "i", "s", "t", "e", "r", ".", "j", "s">>
PackageJson == <<"/", "p", "a", "c", "k", "a", "g", "e", ".", "j", "s", "o", "n">>
SlashIndexJs == <<"/", "i", "n", "d", "e", "x", ".", "j", "s">>
DotMeteor == <<".", "m", "e", "t", "e", "o", "r">>
ClientPluginsJs == <<"/", "c", "l", "i", "e", "n", "t", "/", "p", "l", "u", "g", "i", "n", "s", ".", "j", "s">>
ServerPluginsJs == <<"/", "s", "e", "r", "v", "e", "r", "/", "p", "l", "u", "g", "i", "n", "s", ".", "j", "s">>
FailedToReset == <<"F", "a", "i", "l", "e", "d", " ", "t", "o", " ", "r", "e", "s", "e", "t", " ", "p", "l", "u", "g", "i", "n", "s", " ", "f", "i", "l", "e", " ", "a", "t", " ">>
FailedToWrite == <<"F", "a", "i", "l", "e", "d", " ", "t", "o", " ", "w", "r", "i", "t", "e", " ", "t", "o", " ", "p", "l", "u", "g", "i", "n", "s", " ", "f", "i", "l", "e", " ", "a", "t", " ">>
FailedToInstall == <<"F", "a", "i", "l", "e", "d", " ", "t", "o", " ", "i", "n", "s", "t", "a", "l", "l", " ", "n", "p", "m", " ", "d", "e", "p", "e", "n", "d", "e", "n", "c", "i", "e", "s", " ", "f", "o", "r", " ", "p", "l", "u", "g", "i", "n", ":", " ">>
ImportOpen == <<"i", "m", "p", "o", "r", "t", " ", "'">>
ImportClose == <<"'", ";", "\n">>

\* the three plugin tiers, in the order loadPlugins visits them
Tiers == <<"core", "included", "custom">>

\* the directory of a tier below pluginsPath, as the code spells it
TierDir(t) ==
  IF t = "core" THEN <<"c", "o", "r", "e", "/">>
  ELSE IF t = "included" THEN <<"i", "n", "c", "l", "u", "d", "e", "d", "/">>
  ELSE <<"c", "u", "s", "t", "o", "m", "/">>

\* the four artifacts a plugin directory may hold, with their sub-paths
Artifacts == {"client", "server", "registry", "package"}
ArtifactFile(a) ==
  IF a = "client" THEN ClientIndexJs
  ELSE IF a = "server" THEN ServerIndexJs
  ELSE IF a = "registry" THEN RegisterJs
  ELSE PackageJson

(***************************************************************************)
(* Inputs: the host, the plugin tree and the configuration.                *)
(***************************************************************************)
\* plugin directory names: two plain ones, a hidden one, one that begins
\* with the entry filename, and one with a backslash (a legal name on POSIX)
NameA == <<"a">>
NameB == <<"b">>
NameHidden == <<".", "h">>
NameIndexJs == <<"i", "n", "d", "e", "x", ".", "j", "s">>
NameBackslash == <<"x", "\\", "y">>
NameC == <<"c">>
PluginNames == {NameA, NameB, NameHidden, NameIndexJs, NameBackslash}
PlainNames == {NameA, NameB, NameHidden}

\* the hosts: the path module in use and path.resolve('.'), the working
\* directory (the application root, or a directory below its .meteor)
Hosts ==
  { [os |-> "posix", cwd |-> <<"/", "r">>],
    [os |-> "posix", cwd |-> <<"/", "r", "/", ".", "m", "e", "t", "e", "o", "r", "/", "l", "o", "c", "a", "l">>],
    [os |-> "win32", cwd |-> <<"C", ":", "\\", "r">>] }
RootHosts == { h \in Hosts : h.cwd = <<"/", "r">> }

\* the values pluginConfig.disabledPlugins takes
DisabledChoices == { {}, {NameB} }

\* what a plugins file holds before the run: the output of an earlier run
StaleLine == ImportOpen \o <<"/", "o", "l", "d">> \o ImportClose
StaleContent == <<importFileMessage, StaleLine>>

\* sequences without repetition (a directory holds a name once)
Listings(names, n) ==
  { s \in UNION { [1..m -> names] : m \in 0..n } :
      \A i, j \in 1..Len(s) : s[i] = s[j] => i = j }

TierSet == { Tiers[i] : i \in 1..3 }

VARIABLES
  host,               \* the element of Hosts the loader runs on
  disabledPlugins,    \* pluginConfig.disabledPlugins
  dirs,               \* tier -> the sub-directories of the tier, as enumerated
  files,              \* the artifacts found so far: <<tier, directory, artifact>>
  known,              \* the directories looked into so far: <<tier, directory>>
  outputs,            \* the plugins files as each earlier run of loadPlugins left them
  pc,                 \* position of the run
  tier,               \* index in Tiers of the tier getImportPaths works on
  pluginDirs,         \* getImportPaths: the directories kept by _.reject
  idx,                \* getImportPaths: position of forEach in pluginDirs
  clientImportPaths,  \* getImportPaths: accumulator
  serverImportPaths,  \* getImportPaths: accumulator
  registryImportPaths,\* getImportPaths: accumulator
  tierPaths,          \* loadPlugins: core, included, custom (by tier)
  clientImports,      \* loadPlugins: the client manifest
  serverImports,      \* loadPlugins: the server manifest
  target,             \* generateImportsFile: "client" or "server" file
  k,                  \* generateImportsFile: position of forEach in imports
  fileContent,        \* target -> the chunks the plugins file holds
  installs,           \* the install commands run so far: <<tier, plugin>>
  log,                \* the messages passed to Log.error
  exitCode,           \* 0 while the process runs, else the status of process.exit
  Products,           \* the Products collection: _id -> document
  frame,              \* the product method or helper called last, and how far it is
  events,             \* what the call in frame has passed to appEvents.emit
  fibers,             \* the method calls that have unblocked and not returned yet
  Tags                \* the Tags collection: _id -> document

catalog == <<Products, frame, events, fibers, Tags>>
env == <<host, disabledPlugins, dirs, files, known, outputs, catalog>>
locals == <<pluginDirs, idx, clientImportPaths, serverImportPaths, registryImportPaths>>
manifests == <<tierPaths, clientImports, serverImports>>
vars == <<host, disabledPlugins, dirs, files, known, outputs, pc, tier, pluginDirs, idx,
          clientImportPaths, serverImportPaths, registryImportPaths, tierPaths,
          clientImports, serverImports, target, k, fileContent, installs, log,
          exitCode, Products, frame, events, fibers, Tags>>

(***************************************************************************)
(* Paths.                                                                  *)
(***************************************************************************)
\* path.resolve('.').split('.meteor')[0]
appRoot == SplitHead(host.cwd, DotMeteor)

\* pluginsPath, and corePlugins / includedPlugins / customPlugins
pluginsPath == appRoot \o ImportsPlugins
baseDirPath(t) == pluginsPath \o TierDir(t)

\* the file generateImportsFile is given for a target
PluginsFile(tg) ==
  appRoot \o (IF tg = "client" THEN ClientPluginsJs ELSE ServerPluginsJs)

\* getDirectories(baseDirPath): the sub-directories of the tier's directory
getDirectories(t) == dirs[t]

\* the artifacts of one plugin directory, as files of the plugin tree
FilesOf(t, plugin, arts) == { <<t, plugin, a>> : a \in arts }

\* the sets of artifacts a directory looked into may hold: what was found
\* there before, or for a directory not looked into yet any set of artifacts
ArtifactChoices(t, plugin) ==
  IF <<t, plugin>> \in known
  THEN { { a \in Artifacts : <<t, plugin, a>> \in files } }
  ELSE { arts \in SUBSET Artifacts : Cardinality(files) + Cardinality(arts) <= MaxFiles }

\* exists(path): a file of the plugin tree fs is present at the path
exists(fs, path) ==
  \E f \in fs : path = baseDirPath(f[1]) \o f[2] \o ArtifactFile(f[3])

\* a variant that forgets the disabled plugins
RejectedHiddenOnly(d) == d[1] = "."

\* the predicate of _.reject: hidden directories and disabled plugins
Rejected(d) == d[1] = "." \/ d \in disabledPlugins

\* _.reject(list, predicate): the elements failing the predicate, in order
RECURSIVE reject(_)
reject(list) ==
  IF list = <<>> THEN <<>>
  ELSE IF Rejected(Head(list)) THEN reject(Tail(list))
  ELSE <<Head(list)>> \o reject(Tail(list))

\* a variant that leaves the separators of the host in the path
getImportPathHostSeparators(pluginFile) ==
  <<"/">> \o relative(host.os, appRoot, pluginFile)

\* getImportPath(pluginFile)
getImportPath(pluginFile) ==
  ReplaceBackslashes(<<"/">> \o relative(host.os, appRoot, pluginFile))

\* the argument of getImportPath for a client or server entry:
\* clientImport.replace('/index.js', '')
StripIndexJs(entryFile) == ReplaceFirst(entryFile, SlashIndexJs, <<>>)

\* a manifest entry: the import path, with the plugin it came from
Entry(p, t, plugin, kind) == [path |-> p, tier |-> t, plugin |-> plugin, kind |-> kind]

\* the line generateImportsFile appends for an import path
ImportLine(importPath) == ImportOpen \o importPath \o ImportClose

(***************************************************************************)
(* Initial states.                                                         *)
(***************************************************************************)
\* no product method or helper has been called
NoCall ==
  [op |-> "none", pc |-> "returned", id |-> 0, input |-> <<>>, text |-> <<>>,
   flag |-> FALSE, error |-> "none", ids |-> <<>>, granted |-> {}]

\* loadPlugins has not run: nothing is collected, and both plugins files hold
\* what an earlier startup wrote; the loader does not touch the catalog
StartOfRun ==
  /\ Products = <<>>
  /\ frame = NoCall
  /\ events = <<>>
  /\ fibers = <<>>
  /\ Tags = <<>>
  /\ outputs = <<>>
  /\ pc = "loadPlugins"
  /\ tier = 1
  /\ pluginDirs = <<>>
  /\ idx = 1
  /\ clientImportPaths = <<>>
  /\ serverImportPaths = <<>>
  /\ registryImportPaths = <<>>
  /\ tierPaths = [t \in TierSet |-> [client |-> <<>>, server |-> <<>>, registry |-> <<>>]]
  /\ clientImports = <<>>
  /\ serverImports = <<>>
  /\ target = "client"
  /\ k = 1
  /\ fileContent = [tg \in {"client", "server"} |-> StaleContent]
  /\ installs = <<>>
  /\ log = <<>>
  /\ exitCode = 0

\* the run has not started: the plugin tree is as the operator left it (its
\* directories are drawn here, the artifacts of a directory when the loader
\* looks for them), and both plugins files hold the output of an earlier run
InitWith(hosts, names, n) ==
  /\ host \in hosts
  /\ disabledPlugins \in DisabledChoices
  /\ dirs \in [TierSet -> Listings(names, n)]
  /\ Len(dirs["core"]) + Len(dirs["included"]) + Len(dirs["custom"]) <= n
  /\ host.os = "win32" =>
       \A t \in TierSet : \A i \in 1..Len(dirs[t]) : ~ Includes(dirs[t][i], <<"\\">>)
  /\ files = {}
  /\ known = {}
  /\ StartOfRun

\* a plugin tree of plainly named, hidden and disabled directories, loaded
\* from the application root of a POSIX host
Init == InitWith(RootHosts, PlainNames, MaxDirs)

\* a plugin tree of plainly named directories, some disabled, loaded from the
\* application root of a POSIX host
InitRuns == InitWith(RootHosts, {NameA, NameB}, MaxDirs)

\* the plugin tree of the worked example: core holds a and b, included holds
\* c, custom is empty
ExampleDirs ==
  [t \in TierSet |-> IF t = "core" THEN <<NameA, NameB>>
                     ELSE IF t = "included" THEN <<NameC>>
                     ELSE <<>>]

\* the artifacts of the worked example: a has both entries, b the server
\* entry, c the client entry
ExampleFiles ==
  { <<"core", NameA, "client">>, <<"core", NameA, "server">>,
    <<"core", NameB, "server">>, <<"included", NameC, "client">> }

\* the artifacts the tree of the worked example may hold besides
ExampleExtraFiles ==
  { <<"core", NameA, "registry">>, <<"core", NameA, "package">>,
    <<"core", NameB, "package">>, <<"included", NameC, "server">> }

\* the plugin tree of the worked example, with or without further artifacts
\* and with or without b disabled, on every host; every artifact is settled
\* before the run
InitExample ==
  /\ host \in Hosts
  /\ disabledPlugins \in DisabledChoices
  /\ dirs = ExampleDirs
  /\ files \in { ExampleFiles \cup extra : extra \in SUBSET ExampleExtraFiles }
  /\ known = { <<f[1], f[2]>> : f \in ExampleFiles }
  /\ StartOfRun

\* a small plugin tree, on every host, where a directory may be named like
\* the entry file
InitEntryName == InitWith(Hosts, {NameA, NameIndexJs}, MaxDirsAnyHost)

\* a small plugin tree, on every host, where a directory may have a
\* backslash in its name
InitBackslashName == InitWith(Hosts, {NameA, NameBackslash}, MaxDirsAnyHost)

(***************************************************************************)
(* getImportPaths(baseDirPath), one call per tier.                         *)
(***************************************************************************)
\* process.exit(1): the run stops where it is
Exit == /\ pc' = "exit"
        /\ exitCode' = 1

\* lines 62-68: the directories of the tier, minus the rejected ones
EnterGetImportPaths ==
  /\ pc = "loadPlugins"
  /\ tier <= 3
  /\ pluginDirs' = reject(getDirectories(Tiers[tier]))
  /\ idx' = 1
  /\ clientImportPaths' = <<>>
  /\ serverImportPaths' = <<>>
  /\ registryImportPaths' = <<>>
  /\ pc' = "forEach"
  /\ UNCHANGED <<env, tier, manifests, target, k, fileContent, installs, log, exitCode>>

\* a variant that puts the paths of a plugin in front of the accumulators
PushImportPathsInFront(fs, t, plugin) ==
  LET base == baseDirPath(t)
      clientImport == base \o plugin \o ClientIndexJs
      serverImport == base \o plugin \o ServerIndexJs
      registryImport == base \o plugin \o RegisterJs
  IN  /\ clientImportPaths' =
           IF exists(fs, clientImport)
           THEN <<Entry(getImportPath(StripIndexJs(clientImport)), t, plugin, "client")>>
                  \o clientImportPaths
           ELSE clientImportPaths
      /\ serverImportPaths' =
           IF exists(fs, serverImport)
           THEN <<Entry(getImportPath(StripIndexJs(serverImport)), t, plugin, "server")>>
                  \o serverImportPaths
           ELSE serverImportPaths
      /\ registryImportPaths' =
           IF exists(fs, registryImport)
           THEN <<Entry(getImportPath(registryImport), t, plugin, "registry")>>
                  \o registryImportPaths
           ELSE registryImportPaths

\* lines 72-90: the paths one plugin adds to the three accumulators
PushImportPaths(fs, t, plugin) ==
  LET base == baseDirPath(t)
      clientImport == base \o plugin \o ClientIndexJs
      serverImport == base \o plugin \o ServerIndexJs
      registryImport == base \o plugin \o RegisterJs
  IN  /\ clientImportPaths' =
           IF exists(fs, clientImport)
           THEN Append(clientImportPaths,
                       Entry(getImportPath(StripIndexJs(clientImport)), t, plugin, "client"))
           ELSE clientImportPaths
      /\ serverImportPaths' =
           IF exists(fs, serverImport)
           THEN Append(serverImportPaths,
                       Entry(getImportPath(StripIndexJs(serverImport)), t, plugin, "server"))
           ELSE serverImportPaths
      /\ registryImportPaths' =
           IF exists(fs, registryImport)
           THEN Append(registryImportPaths,
                       Entry(getImportPath(registryImport), t, plugin, "registry"))
           ELSE registryImportPaths

\* a variant that runs the install command without looking for package.json
PluginIterationInstallsAlways ==
  /\ pc = "forEach"
  /\ idx <= Len(pluginDirs)
  /\ LET t == Tiers[tier]
         plugin == pluginDirs[idx]
     IN  \E arts \in ArtifactChoices(t, plugin) :
           LET fs == files \cup FilesOf(t, plugin, arts)
           IN  /\ files' = fs
               /\ known' = known \cup {<<t, plugin>>}
               /\ PushImportPaths(fs, t, plugin)
               /\ installs' = Append(installs, <<t, plugin>>)
  /\ idx' = idx + 1
  /\ UNCHANGED <<catalog, host, disabledPlugins, dirs, outputs, pc, tier, pluginDirs, manifests,
                 target, k, fileContent, log, exitCode>>

\* lines 71-103, an iteration of forEach that does not fail: the plugin has
\* no package.json, or its install command succeeds
PluginIteration ==
  /\ pc = "forEach"
  /\ idx <= Len(pluginDirs)
  /\ LET t == Tiers[tier]
         plugin == pluginDirs[idx]
     IN  \E arts \in ArtifactChoices(t, plugin) :
           LET fs == files \cup FilesOf(t, plugin, arts)
           IN  /\ files' = fs
               /\ known' = known \cup {<<t, plugin>>}
               /\ PushImportPaths(fs, t, plugin)
               /\ installs' = IF exists(fs, baseDirPath(t) \o plugin \o PackageJson)
                              THEN Append(installs, <<t, plugin>>)
                              ELSE installs
  /\ idx' = idx + 1
  /\ UNCHANGED <<catalog, host, disabledPlugins, dirs, outputs, pc, tier, pluginDirs, manifests,
                 target, k, fileContent, log, exitCode>>

\* a variant that logs the failed install and goes on to the next plugin
InstallFailsKeepsGoing ==
  /\ pc = "forEach"
  /\ idx <= Len(pluginDirs)
  /\ LET t == Tiers[tier]
         plugin == pluginDirs[idx]
     IN  \E arts \in ArtifactChoices(t, plugin) :
           LET fs == files \cup FilesOf(t, plugin, arts)
           IN  /\ exists(fs, baseDirPath(t) \o plugin \o PackageJson)
               /\ files' = fs
               /\ known' = known \cup {<<t, plugin>>}
               /\ PushImportPaths(fs, t, plugin)
               /\ installs' = Append(installs, <<t, plugin>>)
               /\ log' = Append(log, FailedToInstall \o plugin)
  /\ idx' = idx + 1
  /\ UNCHANGED <<catalog, host, disabledPlugins, dirs, outputs, pc, tier, pluginDirs, manifests,
                 target, k, fileContent, exitCode>>

\* lines 93-101, an iteration whose install command fails
InstallFails ==
  /\ pc = "forEach"
  /\ idx <= Len(pluginDirs)
  /\ LET t == Tiers[tier]
         plugin == pluginDirs[idx]
     IN  \E arts \in ArtifactChoices(t, plugin) :
           LET fs == files \cup FilesOf(t, plugin, arts)
           IN  /\ exists(fs, baseDirPath(t) \o plugin \o PackageJson)
               /\ files' = fs
               /\ known' = known \cup {<<t, plugin>>}
               /\ PushImportPaths(fs, t, plugin)
               /\ installs' = Append(installs, <<t, plugin>>)
               /\ log' = Append(log, FailedToInstall \o plugin)
  /\ Exit
  /\ UNCHANGED <<catalog, host, disabledPlugins, dirs, outputs, tier, pluginDirs, idx, manifests,
                 target, k, fileContent>>

\* lines 105-109: the accumulators are returned to loadPlugins
ReturnImportPaths ==
  /\ pc = "forEach"
  /\ idx > Len(pluginDirs)
  /\ tierPaths' = [tierPaths EXCEPT ![Tiers[tier]] =
                     [client |-> clientImportPaths,
                      server |-> serverImportPaths,
                      registry |-> registryImportPaths]]
  /\ tier' = tier + 1
  /\ pc' = "loadPlugins"
  /\ UNCHANGED <<env, locals, clientImports, serverImports, target, k,
                 fileContent, installs, log, exitCode>>

(***************************************************************************)
(* loadPlugins: the manifests.                                             *)
(***************************************************************************)
\* a variant that puts the included tier first
ConcatClientIncludedFirst(core, included, custom) ==
  included.client \o core.client \o custom.client

\* line 129
ConcatClient(core, included, custom) ==
  core.client \o included.client \o custom.client

\* a variant that puts the registration files of the included tier first
ConcatServerRegistrySwapped(core, included, custom) ==
  core.server \o included.server \o custom.server
    \o included.registry \o core.registry \o custom.registry

\* a variant that goes tier by tier, registration file after entry point
ConcatServerByTier(core, included, custom) ==
  core.server \o core.registry \o included.server \o included.registry
    \o custom.server \o custom.registry

\* lines 130-137
ConcatServer(core, included, custom) ==
  core.server \o included.server \o custom.server
    \o core.registry \o included.registry \o custom.registry

\* lines 128-142: both manifests are built, the client file comes first
ConcatImports ==
  /\ pc = "loadPlugins"
  /\ tier = 4
  /\ clientImports' = ConcatClient(tierPaths["core"], tierPaths["included"], tierPaths["custom"])
  /\ serverImports' = ConcatServer(tierPaths["core"], tierPaths["included"], tierPaths["custom"])
  /\ target' = "client"
  /\ pc' = "reset"
  /\ UNCHANGED <<env, tier, locals, tierPaths, k, fileContent, installs, log, exitCode>>

(***************************************************************************)
(* generateImportsFile(file, imports), one call per target.                *)
(***************************************************************************)
\* the imports argument of the call for a target
ImportsOf(tg) == IF tg = "client" THEN clientImports ELSE serverImports

\* a variant that writes the message without emptying the file
ResetFileKeepsContent ==
  /\ pc = "reset"
  /\ fileContent' = [fileContent EXCEPT ![target] = Append(@, importFileMessage)]
  /\ k' = 1
  /\ pc' = "append"
  /\ UNCHANGED <<env, tier, locals, manifests, target, installs, log, exitCode>>

\* a variant that resets both plugins files before the first is written
ResetFileBothTargets ==
  /\ pc = "reset"
  /\ fileContent' = IF target = "client"
                    THEN [tg \in {"client", "server"} |-> <<importFileMessage>>]
                    ELSE fileContent
  /\ k' = 1
  /\ pc' = "append"
  /\ UNCHANGED <<env, tier, locals, manifests, target, installs, log, exitCode>>

\* lines 26-28: both writeFileSync calls succeed
ResetFile ==
  /\ pc = "reset"
  /\ fileContent' = [fileContent EXCEPT ![target] = <<importFileMessage>>]
  /\ k' = 1
  /\ pc' = "append"
  /\ UNCHANGED <<env, tier, locals, manifests, target, installs, log, exitCode>>

\* the message of line 30
ResetErrorMessage(file) == FailedToReset \o file

\* lines 26-32: one of the two writeFileSync calls throws; when it is the
\* second, the first has already emptied the file
ResetFails ==
  /\ pc = "reset"
  /\ \E call \in {1, 2} :
       fileContent' = IF call = 1 THEN fileContent
                      ELSE [fileContent EXCEPT ![target] = <<>>]
  /\ log' = Append(log, ResetErrorMessage(PluginsFile(target)))
  /\ Exit
  /\ UNCHANGED <<env, tier, locals, manifests, target, k, installs>>

\* a variant that puts each line right under the message, above the lines
\* written before it
AppendImportUnderMessage ==
  /\ pc = "append"
  /\ k <= Len(ImportsOf(target))
  /\ fileContent' = [fileContent EXCEPT
                       ![target] = <<Head(@), ImportLine(ImportsOf(target)[k].path)>> \o Tail(@)]
  /\ k' = k + 1
  /\ UNCHANGED <<env, pc, tier, locals, manifests, target, installs, log, exitCode>>

\* lines 35-37: appendFileSync succeeds for the next import path
AppendImport ==
  /\ pc = "append"
  /\ k <= Len(ImportsOf(target))
  /\ fileContent' = [fileContent EXCEPT
                       ![target] = Append(@, ImportLine(ImportsOf(target)[k].path))]
  /\ k' = k + 1
  /\ UNCHANGED <<env, pc, tier, locals, manifests, target, installs, log, exitCode>>

\* the message of line 39
AppendErrorMessage(file, importPath) == FailedToWrite \o importPath

\* a variant that logs the failed append and goes on to the next import
AppendFailsKeepsGoing ==
  /\ pc = "append"
  /\ k <= Len(ImportsOf(target))
  /\ log' = Append(log, AppendErrorMessage(PluginsFile(target), ImportsOf(target)[k].path))
  /\ k' = k + 1
  /\ UNCHANGED <<env, pc, tier, locals, manifests, target, fileContent, installs, exitCode>>

\* lines 38-41: appendFileSync throws for the next import path
AppendFails ==
  /\ pc = "append"
  /\ k <= Len(ImportsOf(target))
  /\ log' = Append(log, AppendErrorMessage(PluginsFile(target), ImportsOf(target)[k].path))
  /\ Exit
  /\ UNCHANGED <<env, tier, locals, manifests, target, k, fileContent, installs>>

\* line 43 and lines 142-144: forEach is over; the server file follows the
\* client file, and loadPlugins returns after the server file
ReturnGenerateImportsFile ==
  /\ pc = "append"
  /\ k > Len(ImportsOf(target))
  /\ IF target = "client"
     THEN /\ target' = "server"
          /\ pc' = "reset"
     ELSE /\ target' = target
          /\ pc' = "done"
  /\ UNCHANGED <<env, tier, locals, manifests, k, fileContent, installs, log, exitCode>>

Next ==
  \/ EnterGetImportPaths
  \/ PluginIteration
  \/ InstallFails
  \/ ReturnImportPaths
  \/ ConcatImports
  \/ ResetFile
  \/ ResetFails
  \/ AppendImport
  \/ AppendFails
  \/ ReturnGenerateImportsFile

\* the application is started again: loadPlugins runs anew over the plugin
\* tree and configuration as they are, with the plugins files as the run
\* before left them
RunAgain ==
  /\ pc = "done"
  /\ Len(outputs) < MaxRuns - 1
  /\ outputs' = Append(outputs, fileContent)
  /\ pc' = "loadPlugins"
  /\ tier' = 1
  /\ pluginDirs' = <<>>
  /\ idx' = 1
  /\ clientImportPaths' = <<>>
  /\ serverImportPaths' = <<>>
  /\ registryImportPaths' = <<>>
  /\ tierPaths' = [t \in TierSet |-> [client |-> <<>>, server |-> <<>>, registry |-> <<>>]]
  /\ clientImports' = <<>>
  /\ serverImports' = <<>>
  /\ target' = "client"
  /\ k' = 1
  /\ installs' = <<>>
  /\ UNCHANGED <<catalog, host, disabledPlugins, dirs, files, known, fileContent, log, exitCode>>

\* runs of loadPlugins one after the other
NextRuns ==
  \/ Next
  \/ RunAgain

Spec == Init /\ [][Next]_vars
SpecRuns == InitRuns /\ [][NextRuns]_vars
SpecExample == InitExample /\ [][Next]_vars

\* a run whose calls all return: a step that can be taken is taken
FairSpec == Init /\ [][Next]_vars /\ WF_vars(Next)
SpecEntryName == InitEntryName /\ [][Next]_vars
SpecBackslashName == InitBackslashName /\ [][Next]_vars

(***************************************************************************)
(* Properties of the manifests.                                            *)
(***************************************************************************)
\* the position of a tier in the order core, included, custom
TierRank(t) == CHOOSE i \in 1..3 : Tiers[i] = t

\* in a manifest, every entry of a tier precedes every entry of the next tier
TierOrdered(manifest) ==
  \A i, j \in 1..Len(manifest) :
    TierRank(manifest[j].tier) = TierRank(manifest[i].tier) + 1 => i < j

\* the run is over and loadPlugins has returned
Completed == pc = "done"

\* C1: in the client manifest every path of a core plugin precedes every
\* path of an included plugin, and every path of an included plugin precedes
\* every path of a custom plugin.
C1_ClientTierOrder == TierOrdered(clientImports)

\* a completed run whose client manifest has paths of two successive tiers
C1_Witness ==
  /\ Completed
  /\ \E i, j \in 1..Len(clientImports) :
       TierRank(clientImports[j].tier) = TierRank(clientImports[i].tier) + 1

\* C2, as claimed: in the server manifest every path of a core plugin, entry
\* point or registration file, precedes every path of an included plugin, and
\* every path of an included plugin precedes every path of a custom plugin.
C2_ServerTierOrder == TierOrdered(serverImports)

\* C2, amended: in the server manifest the tiers are in order among the entry
\* points and, separately, among the registration files.
C2_ServerTierOrderPerKind ==
  \A i, j \in 1..Len(serverImports) :
    /\ serverImports[i].kind = serverImports[j].kind
    /\ TierRank(serverImports[j].tier) = TierRank(serverImports[i].tier) + 1
    => i < j

\* a completed run whose server manifest has registration files of two
\* successive tiers
C2_Witness ==
  /\ Completed
  /\ \E i, j \in 1..Len(serverImports) :
       /\ serverImports[i].kind = "registry"
       /\ serverImports[j].kind = "registry"
       /\ TierRank(serverImports[j].tier) = TierRank(serverImports[i].tier) + 1

\* C3: in the server manifest every entry-point path, of any tier, precedes
\* every registration-file path, of any tier.
C3_EntryBeforeRegistry ==
  \A i, j \in 1..Len(serverImports) :
    serverImports[i].kind = "server" /\ serverImports[j].kind = "registry" => i < j

\* a completed run where an earlier tier has a registration file and a later
\* tier an entry point
C3_Witness ==
  /\ Completed
  /\ \E i, j \in 1..Len(serverImports) :
       /\ serverImports[i].kind = "server"
       /\ serverImports[j].kind = "registry"
       /\ TierRank(serverImports[j].tier) < TierRank(serverImports[i].tier)

\* the directories of the plugin tree whose name is hidden or disabled
RejectedDirs ==
  { r \in UNION { { <<t, dirs[t][i]>> : i \in 1..Len(dirs[t]) } : t \in TierSet } :
      r[2][1] = "." \/ r[2] \in disabledPlugins }

\* '/imports/plugins/T/P' for the directory P of tier T
PluginImportPath(t, plugin) == ImportsPlugins \o TierDir(t) \o plugin

\* s.startsWith(pre) and s.endsWith(post)
StartsWith(s, pre) == Len(pre) <= Len(s) /\ SubSeq(s, 1, Len(pre)) = pre
EndsWith(s, post) ==
  Len(post) <= Len(s) /\ SubSeq(s, Len(s) - Len(post) + 1, Len(s)) = post

\* the entries of both manifests, and of the lists they are built from
AllEntries ==
  LET Elems(q) == { q[i] : i \in 1..Len(q) }
  IN  Elems(clientImports) \cup Elems(serverImports)
        \cup Elems(clientImportPaths) \cup Elems(serverImportPaths)
        \cup Elems(registryImportPaths)

\* C4: a directory whose name begins with '.' or is in disabledPlugins gives
\* no path to either manifest: no entry comes from it, and no path of a
\* manifest lies below it.
C4_RejectedContributeNothing ==
  /\ \A e \in AllEntries : e.plugin[1] # "." /\ e.plugin \notin disabledPlugins
  /\ \A r \in RejectedDirs : \A e \in AllEntries :
       ~ StartsWith(e.path, PluginImportPath(r[1], r[2]) \o <<"/">>)

\* a completed run over a tree with a hidden and a disabled directory
C4_Witness ==
  /\ Completed
  /\ \E r \in RejectedDirs : r[2][1] = "."
  /\ \E r \in RejectedDirs : r[2] \in disabledPlugins

(***************************************************************************)
(* Properties of the import paths.                                         *)
(***************************************************************************)
SlashClient == <<"/", "c", "l", "i", "e", "n", "t">>
SlashServer == <<"/", "s", "e", "r", "v", "e", "r">>

\* C5: the path added for a client (server) entry of plugin P of tier T is
\* exactly '/imports/plugins/T/P/client' ('.../P/server'): it starts with '/'
\* and has no backslash, whatever the directory is named.
C5_EntryImportPath ==
  \A e \in AllEntries :
    e.kind \in {"client", "server"} =>
      /\ e.path = PluginImportPath(e.tier, e.plugin)
                    \o (IF e.kind = "client" THEN SlashClient ELSE SlashServer)
      /\ e.path[1] = "/"
      /\ ~ Includes(e.path, <<"\\">>)

\* a path written with forward slashes only
ForwardSlashes(path) ==
  [i \in 1..Len(path) |-> IF path[i] = "/" \/ path[i] = "\\" THEN "/" ELSE path[i]]

InstallFailureLogged == \E i \in 1..Len(log) : StartsWith(log[i], FailedToInstall)
ResetFailureLogged == \E i \in 1..Len(log) : StartsWith(log[i], FailedToReset)
AppendFailureLogged == \E i \in 1..Len(log) : StartsWith(log[i], FailedToWrite)
WriteFailureLogged == ResetFailureLogged \/ AppendFailureLogged

\* what both plugins files hold before the run
PreRunContent == [tg \in {"client", "server"} |-> StaleContent]

\* what a plugins file holds once its manifest is written in full
CompleteContent(tg) ==
  <<importFileMessage>> \o [i \in 1..Len(ImportsOf(tg)) |-> ImportLine(ImportsOf(tg)[i].path)]

\* the proper prefixes of a sequence
ProperPrefixes(q) == { SubSeq(q, 1, n) : n \in 0..(Len(q) - 1) }

\* C7: when an install command fails the process exits with status 1 there:
\* the failed install is the last one run, and neither plugins file has been
\* touched; a plugins file is written only after the three tiers are through.
C7_InstallFailureAborts ==
  /\ InstallFailureLogged =>
       /\ pc = "exit"
       /\ exitCode = 1
       /\ Len(log) = 1
       /\ installs # <<>>
       /\ installs[Len(installs)] = <<Tiers[tier], pluginDirs[idx]>>
       /\ log[1] = FailedToInstall \o pluginDirs[idx]
       /\ fileContent = PreRunContent
  /\ fileContent # PreRunContent => tier = 4 /\ ~ InstallFailureLogged

\* an install has failed for a plugin that is not the last of its tier
C7_Witness ==
  /\ InstallFailureLogged
  /\ idx < Len(pluginDirs)

\* C8: when a write to a plugins file fails the process exits with status 1
\* there: the file holds no import line after the failed one, and the other
\* file is not written afterwards.
C8_WriteFailureAborts ==
  WriteFailureLogged =>
    /\ pc = "exit"
    /\ exitCode = 1
    /\ Len(log) = 1
    /\ ResetFailureLogged => fileContent[target] \in {StaleContent, <<>>}
    /\ AppendFailureLogged =>
         fileContent[target] = SubSeq(CompleteContent(target), 1, k)
    /\ target = "client" => fileContent["server"] = StaleContent
    /\ target = "server" => fileContent["client"] = CompleteContent("client")

\* an append to the client file has failed before the last import
C8_Witness ==
  /\ AppendFailureLogged
  /\ target = "client"
  /\ k < Len(clientImports)

\* C9: the message logged for a failed write to a plugins file, reset or
\* append, contains the path of the plugins file.
C9_WriteErrorNamesFile ==
  \A i \in 1..Len(log) :
    StartsWith(log[i], FailedToReset) \/ StartsWith(log[i], FailedToWrite)
      => Includes(log[i], PluginsFile(target))

\* the run has terminated, by return or by process.exit
Terminated == pc \in {"done", "exit"}

\* C10, as claimed: a terminated run has left both plugins files complete, or
\* has exited non-zero with both files as they were before the run.
C10_NoPartialSuccess ==
  Terminated =>
    \/ fileContent = [tg \in {"client", "server"} |-> CompleteContent(tg)]
    \/ exitCode # 0 /\ fileContent = PreRunContent

\* C10, amended: a run that returns has left both plugins files complete; a
\* run that exits has status 1, after a failed install with both files as
\* they were, after a failed write with the file being written as it was or
\* cut short (empty, message only, or some of its import lines), the server
\* file as it was if the client file failed and the client file complete if
\* the server file failed.
C10_TerminationOutcomes ==
  /\ pc = "done" =>
       /\ exitCode = 0
       /\ fileContent = [tg \in {"client", "server"} |-> CompleteContent(tg)]
  /\ pc = "exit" =>
       /\ exitCode = 1
       /\ InstallFailureLogged \/ WriteFailureLogged
       /\ InstallFailureLogged => fileContent = PreRunContent
       /\ WriteFailureLogged =>
            /\ fileContent[target] \in
                 {StaleContent} \cup ProperPrefixes(CompleteContent(target))
            /\ target = "client" => fileContent["server"] = StaleContent
            /\ target = "server" => fileContent["client"] = CompleteContent("client")

\* the run has exited with the client file complete and the server file
\* holding the message and some, not all, of its import lines
C10_Witness ==
  /\ pc = "exit"
  /\ target = "server"
  /\ Len(fileContent["server"]) >= 2
  /\ fileContent["server"] \in ProperPrefixes(CompleteContent("server"))
  /\ fileContent["client"] = CompleteContent("client")

(***************************************************************************)
(* Properties of the plugins files.                                        *)
(***************************************************************************)
\* what a plugins file held when this run of loadPlugins started
BeforeRun(tg) == IF outputs = <<>> THEN StaleContent ELSE outputs[Len(outputs)][tg]

\* C11: the two plugins files are written one after the other, client first:
\* as long as the client file is the one being written, failed or not, the
\* server file is as it was before the run, and from the moment the server
\* file is the one being written, failed or not, the client file holds its
\* complete manifest.
C11_OtherFileNeverHalfWritten ==
  /\ target = "client" /\ pc # "done" => fileContent["server"] = BeforeRun("server")
  /\ target = "server" => fileContent["client"] = CompleteContent("client")

\* a write to the server file has failed after the client file received
\* import lines
C11_Witness ==
  /\ pc = "exit"
  /\ WriteFailureLogged
  /\ target = "server"
  /\ Len(fileContent["client"]) >= 2

\* C12: after a run that returned, each plugins file is the message followed
\* by one line "import '<path>';" for each entry of its manifest, in the order
\* and with the multiplicity of the manifest, and by nothing else: no chunk of
\* what the file held before the run is left.
C12_FileIsHeaderThenImports ==
  Completed =>
    \A tg \in {"client", "server"} :
      /\ Len(fileContent[tg]) = 1 + Len(ImportsOf(tg))
      /\ fileContent[tg][1] = importFileMessage
      /\ \A i \in 1..Len(ImportsOf(tg)) :
           fileContent[tg][i + 1] = ImportOpen \o ImportsOf(tg)[i].path \o ImportClose
      /\ \A i \in 2..Len(fileContent[tg]) : fileContent[tg][i] # StaleLine

\* a run has returned with two lines in the server file and one in the
\* client file
C12_Witness ==
  /\ Completed
  /\ Len(fileContent["server"]) = 3
  /\ Len(fileContent["client"]) = 2

\* C13: when loadPlugins has run and returned, and runs again over the same
\* directories, artifacts and disabledPlugins with every install succeeding,
\* both plugins files hold after the later run exactly what they held after
\* the run before it.
C13_RerunLeavesFilesIdentical ==
  Completed /\ outputs # <<>> => fileContent = outputs[Len(outputs)]

\* a second run has returned, with import lines in both plugins files and an
\* install run again
C13_Witness ==
  /\ Completed
  /\ outputs # <<>>
  /\ Len(fileContent["client"]) >= 2
  /\ Len(fileContent["server"]) >= 2
  /\ installs # <<>>

(***************************************************************************)
(* Properties of the installs and of the order within a tier.              *)
(***************************************************************************)
\* the directories of a list that are found to hold package.json, in the
\* order of the list, each with its tier
RECURSIVE WithPackageJson(_, _)
WithPackageJson(t, list) ==
  IF list = <<>> THEN <<>>
  ELSE IF <<t, Head(list), "package">> \in files
       THEN <<<<t, Head(list)>>>> \o WithPackageJson(t, Tail(list))
       ELSE WithPackageJson(t, Tail(list))

\* the installs due for what the run has found so far: tier by tier, and
\* within a tier in the order getDirectories gave
InstallsDue ==
  WithPackageJson("core", reject(getDirectories("core")))
    \o WithPackageJson("included", reject(getDirectories("included")))
    \o WithPackageJson("custom", reject(getDirectories("custom")))

\* C14: the install command is run once for each plugin directory that is
\* neither hidden nor disabled and holds package.json, and for no other; the
\* installs are run one at a time, tiers in the order core, included, custom
\* and within a tier in the order of discovery; an install is run only by
\* the iteration over the plugin directories, for the directory at hand, so
\* none starts once a plugins file is being written.
C14_InstallOncePerEligiblePlugin ==
  /\ [](installs = InstallsDue)
  /\ [][installs' # installs =>
         /\ pc = "forEach"
         /\ installs' = Append(installs, <<Tiers[tier], pluginDirs[idx]>>)]_vars
  /\ [](pc \in {"reset", "append", "done"} => tier = 4 /\ installs = InstallsDue)

\* a run has returned that looked into two plugin directories, one of them
\* the second of its tier, and ran the install for that one only
C14_Witness ==
  /\ Completed
  /\ Cardinality(known) = 2
  /\ \E t \in TierSet : Len(dirs[t]) = 2 /\ installs = <<<<t, dirs[t][2]>>>>

\* the position of a directory in the listing of its tier
ListingPosition(t, plugin) == CHOOSE i \in 1..Len(dirs[t]) : dirs[t][i] = plugin

\* entries of one tier and one kind follow the listing of the tier
InListingOrder(list) ==
  \A i, j \in 1..Len(list) :
    i < j /\ list[i].tier = list[j].tier /\ list[i].kind = list[j].kind
      => ListingPosition(list[i].tier, list[i].plugin)
           < ListingPosition(list[j].tier, list[j].plugin)

\* C15: within a tier the paths of a kind stand in the order in which
\* getDirectories listed the directories they come from: in the accumulators
\* of getImportPaths, in what it returns, and in both manifests; the
\* directories kept by the filter stand in the order of the listing too.
C15_ListingOrderWithinTier ==
  /\ pc = "forEach" =>
       \A i, j \in 1..Len(pluginDirs) :
         i < j => ListingPosition(Tiers[tier], pluginDirs[i])
                    < ListingPosition(Tiers[tier], pluginDirs[j])
  /\ InListingOrder(clientImportPaths)
  /\ InListingOrder(serverImportPaths)
  /\ InListingOrder(registryImportPaths)
  /\ \A t \in TierSet :
       /\ InListingOrder(tierPaths[t].client)
       /\ InListingOrder(tierPaths[t].server)
       /\ InListingOrder(tierPaths[t].registry)
  /\ InListingOrder(clientImports)
  /\ InListingOrder(serverImports)

\* a run has returned with the client paths of two plugins of one tier in
\* the client manifest
C15_Witness ==
  /\ Completed
  /\ Len(clientImports) = 2
  /\ clientImports[1].tier = clientImports[2].tier

(***************************************************************************)
(* The worked example.                                                     *)
(***************************************************************************)
\* the paths of a manifest
PathsOf(list) == [i \in 1..Len(list) |-> list[i].path]

\* the tree, artifacts and configuration of the worked example
ExampleInput ==
  /\ dirs = ExampleDirs
  /\ files = ExampleFiles
  /\ disabledPlugins = {NameB}

\* C16: with core holding a (client and server entry) and b (server entry
\* only), included holding c (client entry only), custom empty and b
\* disabled, a run that returns has built the client manifest
\* '/imports/plugins/core/a/client', '/imports/plugins/included/c/client' and
\* the server manifest '/imports/plugins/core/a/server', and nothing else.
C16_WorkedExample ==
  Completed /\ ExampleInput =>
    /\ PathsOf(clientImports) =
         << <<"/", "i", "m", "p", "o", "r", "t", "s", "/", "p", "l", "u", "g", "i", "n", "s", "/", "c", "o", "r", "e", "/", "a", "/", "c", "l", "i", "e", "n", "t">>,
            <<"/", "i", "m", "p", "o", "r", "t", "s", "/", "p", "l", "u", "g", "i", "n", "s", "/", "i", "n", "c", "l", "u", "d", "e", "d", "/", "c", "/", "c", "l", "i", "e", "n", "t">> >>
    /\ PathsOf(serverImports) =
         << <<"/", "i", "m", "p", "o", "r", "t", "s", "/", "p", "l", "u", "g", "i", "n", "s", "/", "c", "o", "r", "e", "/", "a", "/", "s", "e", "r", "v", "e", "r">> >>

\* a run over the worked example has returned, on a Windows host
C16_Witness ==
  /\ Completed
  /\ ExampleInput
  /\ host.os = "win32"

(***************************************************************************)
(* Termination.                                                            *)
(***************************************************************************)
\* loadPlugins has returned: nothing was logged and both plugins files are
\* written in full
FullCompletion ==
  /\ pc = "done"
  /\ exitCode = 0
  /\ log = <<>>
  /\ \A tg \in {"client", "server"} : fileContent[tg] = CompleteContent(tg)

\* the process has exited with status 1 at a failure, the only one logged
ExitAtFailure ==
  /\ pc = "exit"
  /\ exitCode = 1
  /\ Len(log) = 1
  /\ InstallFailureLogged \/ WriteFailureLogged

\* C17: every run of loadPlugins whose install commands and file system
\* calls return comes to an end, and it ends in one of two ways: loadPlugins
\* returns with both plugins files written, or the process exits with status
\* 1 at the first install or write that fails; a failure is logged once and
\* nothing is tried again, and a run that has ended stays as it ended.
C17_RunTerminates ==
  /\ <>Terminated
  /\ [](Terminated => (FullCompletion /\ ~ExitAtFailure) \/ (ExitAtFailure /\ ~FullCompletion))
  /\ [](~Terminated => log = <<>> /\ exitCode = 0)
  /\ [][Terminated => UNCHANGED vars]_vars

\* a run has exited at a failed install in the second tier it visited
C17_Witness ==
  /\ ExitAtFailure
  /\ InstallFailureLogged
  /\ tier >= 2

(***************************************************************************)
(* Model of the product methods,                                           *)
(* src/imports/plugins/core/accounts/client/helpers/util.js.               *)
(***************************************************************************)
\* the variables of the loader, which the product methods leave alone
loader == <<host, disabledPlugins, dirs, files, known, outputs, pc, tier, pluginDirs,
            idx, clientImportPaths, serverImportPaths, registryImportPaths, tierPaths,
            clientImports, serverImports, target, k, fileContent, installs, log,
            exitCode>>

\* the loader is not running: an empty plugin tree, nothing collected
LoaderAtRest ==
  /\ host \in RootHosts
  /\ disabledPlugins = {}
  /\ dirs = [t \in TierSet |-> <<>>]
  /\ files = {}
  /\ known = {}
  /\ outputs = <<>>
  /\ pc = "loadPlugins"
  /\ tier = 1
  /\ pluginDirs = <<>>
  /\ idx = 1
  /\ clientImportPaths = <<>>
  /\ serverImportPaths = <<>>
  /\ registryImportPaths = <<>>
  /\ tierPaths = [t \in TierSet |-> [client |-> <<>>, server |-> <<>>, registry |-> <<>>]]
  /\ clientImports = <<>>
  /\ serverImports = <<>>
  /\ target = "client"
  /\ k = 1
  /\ fileContent = [tg \in {"client", "server"} |-> StaleContent]
  /\ installs = <<>>
  /\ log = <<>>
  /\ exitCode = 0

\* the _id values of the stored documents, and one more that is not stored
ProductIds == 1..MaxProducts
CallIds == 1..(MaxProducts + 1)

\* the array holds the value (a Mongo selector {field: value} on an array)
InArray(x, array) == \E i \in 1..Len(array) : array[i] = x

\* the ids of a set in the order find().fetch() returns their documents
RECURSIVE Fetched(_)
Fetched(ids) ==
  IF ids = {} THEN <<>>
  ELSE LET first == CHOOSE i \in ids : \A j \in ids : i <= j
       IN  <<first>> \o Fetched(ids \ {first})

\* the ancestors arrays a document may have: ids of documents stored
\* before it, top first, the product and a variant at most
AncestorChoices(i) ==
  { <<>> } \cup { <<a>> : a \in 1..(i - 1) }
           \cup { ab \in (1..(i - 1)) \X (1..(i - 1)) : ab[1] < ab[2] }

\* the documents of a catalog of products, variants and options, deleted or not
VariantDocs(i) ==
  { [type |-> ty, ancestors |-> an, isDeleted |-> del, shopId |-> "shop",
     title |-> <<>>, handle |-> <<>>] :
      ty \in {"simple", "variant"}, an \in AncestorChoices(i), del \in BOOLEAN }

\* a catalog of products and variants, before any method is called
InitVariants ==
  /\ LoaderAtRest
  /\ Products \in { ps \in [ProductIds -> UNION { VariantDocs(i) : i \in ProductIds }] :
                       \A i \in ProductIds : ps[i] \in VariantDocs(i) }
  /\ frame = NoCall
  /\ events = <<>>
  /\ fibers = <<>>
  /\ Tags = <<>>

\* a method throws a ReactionError
Thrown(op, id, error) ==
  [op |-> op, pc |-> "thrown", id |-> id, input |-> <<>>, text |-> <<>>,
   flag |-> FALSE, error |-> error, ids |-> <<>>, granted |-> {}]

\* a method returns a Boolean
ReturnedFlag(op, id, flag) ==
  [op |-> op, pc |-> "returned", id |-> id, input |-> <<>>, text |-> <<>>,
   flag |-> flag, error |-> "none", ids |-> <<>>, granted |-> {}]

\* the event emitted for a variant flagged as deleted
SoftDeleteEvent(id) ==
  [name |-> "afterVariantSoftDelete", id |-> id,
   variant |-> [Products[id] EXCEPT !.isDeleted = TRUE]]

\* a variant that selects the deleted documents as well
DeleteVariantAlsoDeleted(variantId, granted) ==
  /\ IF variantId \notin DOMAIN Products
     THEN /\ frame' = Thrown("deleteVariant", variantId, "not-found")
          /\ events' = <<>>
          /\ UNCHANGED Products
     ELSE IF Products[variantId].type # "variant"
     THEN /\ frame' = Thrown("deleteVariant", variantId, "invalid")
          /\ events' = <<>>
          /\ UNCHANGED Products
     ELSE IF ~granted
     THEN /\ frame' = Thrown("deleteVariant", variantId, "access-denied")
          /\ events' = <<>>
          /\ UNCHANGED Products
     ELSE LET variantsToDelete ==
                Fetched({ i \in DOMAIN Products :
                            i = variantId \/ InArray(variantId, Products[i].ancestors) })
          IN  /\ Products' = [i \in DOMAIN Products |->
                                IF InArray(i, variantsToDelete)
                                THEN [Products[i] EXCEPT !.isDeleted = TRUE]
                                ELSE Products[i]]
              /\ events' = [j \in 1..Len(variantsToDelete) |->
                              SoftDeleteEvent(variantsToDelete[j])]
              /\ frame' = ReturnedFlag("deleteVariant", variantId, TRUE)
  /\ UNCHANGED <<fibers, Tags, loader>>

\* lines 553-616, products/deleteVariant(variantId), called by a user to whom
\* Reaction.hasPermission grants createProduct for the shop or does not
DeleteVariant(variantId, granted) ==
  /\ IF variantId \notin DOMAIN Products
     THEN /\ frame' = Thrown("deleteVariant", variantId, "not-found")
          /\ events' = <<>>
          /\ UNCHANGED Products
     ELSE IF Products[variantId].type # "variant"
     THEN /\ frame' = Thrown("deleteVariant", variantId, "invalid")
          /\ events' = <<>>
          /\ UNCHANGED Products
     ELSE IF ~granted
     THEN /\ frame' = Thrown("deleteVariant", variantId, "access-denied")
          /\ events' = <<>>
          /\ UNCHANGED Products
     ELSE LET variantsToDelete ==
                Fetched({ i \in DOMAIN Products :
                            /\ ~Products[i].isDeleted
                            /\ i = variantId \/ InArray(variantId, Products[i].ancestors) })
          IN  IF Len(variantsToDelete) = 0
              THEN /\ frame' = ReturnedFlag("deleteVariant", variantId, FALSE)
                   /\ events' = <<>>
                   /\ UNCHANGED Products
              ELSE /\ Products' = [i \in DOMAIN Products |->
                                     IF InArray(i, variantsToDelete)
                                     THEN [Products[i] EXCEPT !.isDeleted = TRUE]
                                     ELSE Products[i]]
                   /\ events' = [j \in 1..Len(variantsToDelete) |->
                                   SoftDeleteEvent(variantsToDelete[j])]
                   /\ frame' = ReturnedFlag("deleteVariant", variantId, TRUE)
  /\ UNCHANGED <<fibers, Tags, loader>>

\* a client calls the method
CallDeleteVariant == \E variantId \in CallIds, granted \in BOOLEAN : DeleteVariant(variantId, granted)

NextVariants == CallDeleteVariant

SpecVariants == InitVariants /\ [][NextVariants]_vars

(***************************************************************************)
(* Properties of products/deleteVariant.                                   *)
(***************************************************************************)
\* the documents a call for the variant is about: the variant and the
\* documents that have it among their ancestors
VariantAndDescendants(variantId) ==
  { i \in DOMAIN Products : i = variantId \/ InArray(variantId, Products[i].ancestors) }

\* C18: a call of products/deleteVariant that does not throw (the variant
\* exists, is a variant, and the caller has the permission) leaves the
\* variant and every document that has it among its ancestors with
\* isDeleted = true, changes nothing else, emits one afterVariantSoftDelete
\* event for each document it flagged (those not deleted before) and no
\* other, and returns true when it flagged a document and false when not.
C18_DeleteVariantFlagsSubtree ==
  [][frame'.op = "deleteVariant" /\ frame'.pc = "returned" =>
       LET about == VariantAndDescendants(frame'.id)
           flagged == { i \in about : ~Products[i].isDeleted }
       IN  /\ \A i \in about : Products'[i].isDeleted
           /\ \A i \in DOMAIN Products \ about : Products'[i] = Products[i]
           /\ \A i \in about : Products'[i] = [Products[i] EXCEPT !.isDeleted = TRUE]
           /\ Len(events') = Cardinality(flagged)
           /\ \A i \in flagged :
                \E j \in 1..Len(events') :
                  /\ events'[j].name = "afterVariantSoftDelete"
                  /\ events'[j].id = i
                  /\ events'[j].variant.isDeleted
           /\ frame'.flag = (flagged # {})]_vars

\* a call has returned true after flagging two descendants of a variant
\* that was deleted before
C18_Witness ==
  /\ frame.op = "deleteVariant"
  /\ frame.pc = "returned"
  /\ frame.flag
  /\ Len(events) = 2
  /\ \A j \in 1..Len(events) : events[j].id # frame.id

(***************************************************************************)
(* createTitle and createHandle.                                           *)
(***************************************************************************)
DigitChars == <<"0", "1", "2", "3", "4", "5", "6", "7", "8", "9">>
Digits == { DigitChars[n] : n \in 1..10 }
DigitValue(c) == (CHOOSE n \in 1..10 : DigitChars[n] = c) - 1

\* the length of what /\d+$/ matches in s, 0 when it does not match
RECURSIVE TrailingDigits(_)
TrailingDigits(s) ==
  IF s = <<>> \/ s[Len(s)] \notin Digits THEN 0
  ELSE 1 + TrailingDigits(SubSeq(s, 1, Len(s) - 1))

\* +digits: the number a string of digits denotes
RECURSIVE ToNumber(_)
ToNumber(digits) ==
  IF digits = <<>> THEN 0
  ELSE 10 * ToNumber(SubSeq(digits, 1, Len(digits) - 1)) + DigitValue(digits[Len(digits)])

\* `${n}`: the decimal digits of a number
RECURSIVE NumberToString(_)
NumberToString(n) ==
  IF n < 10 THEN <<DigitChars[n + 1]>>
  ELSE NumberToString(n \div 10) \o <<DigitChars[(n % 10) + 1]>>

DashCopy == <<"-", "c", "o", "p", "y">>
DashCopyDash == <<"-", "c", "o", "p", "y", "-">>

\* s.match(/-copy-\d+$/) || s.match(/-copy$/): the text matched, <<>> for null
CopySuffixOf(s) ==
  LET d == TrailingDigits(s)
  IN  IF d > 0 /\ EndsWith(SubSeq(s, 1, Len(s) - d), DashCopyDash)
      THEN DashCopyDash \o SubSeq(s, Len(s) - d + 1, Len(s))
      ELSE IF EndsWith(s, DashCopy) THEN DashCopy
      ELSE <<>>

\* +String(copySuffix).match(/\d+$/) || 1
NumberSuffixOf(copySuffix) ==
  LET d == TrailingDigits(copySuffix)
      n == IF d = 0 THEN 0
           ELSE ToNumber(SubSeq(copySuffix, Len(copySuffix) - d + 1, Len(copySuffix)))
  IN  IF n = 0 THEN 1 ELSE n

\* s.replace(/\d+$/, "").replace(/-$/, "")
WithoutNumber(s) ==
  LET t == SubSeq(s, 1, Len(s) - TrailingDigits(s))
  IN  IF t # <<>> /\ t[Len(t)] = "-" THEN SubSeq(t, 1, Len(t) - 1) ELSE t

\* the title or handle after the renaming of createTitle (lines 171-196) and
\* of createHandle (lines 229-255), for the count of the other products that
\* have it
Renamed(text, count) ==
  LET copySuffix == CopySuffixOf(text)
      numberSuffix == IF copySuffix # <<>> THEN NumberSuffixOf(copySuffix) ELSE 0
      textString == IF copySuffix # <<>> THEN WithoutNumber(text) ELSE text
  IN  IF count > 0
      THEN IF numberSuffix > 0
           THEN textString \o <<"-">> \o NumberToString(numberSuffix + count)
           ELSE textString \o DashCopy \o
                  (IF count > 1 THEN <<"-">> \o NumberToString(count) ELSE <<>>)
      ELSE text

\* the titles and handles stored and passed: none, plain, a copy, numbered copies
Texts ==
  { <<>>, <<"a">>, <<"a">> \o DashCopy }
    \cup { <<"a">> \o DashCopyDash \o NumberToString(n) : n \in 0..MaxCopyNumber }

\* Products.find({ handle, _id: { $nin: [productId] } }).count()
HandleCount(handle, productId) ==
  Cardinality({ i \in DOMAIN Products : Products[i].handle = handle /\ i # productId })

\* Products.find({ title, _id: { $nin: [productId] } }).count()
TitleCount(title, productId) ==
  Cardinality({ i \in DOMAIN Products : Products[i].title = title /\ i # productId })

\* Products.find({ title }).count()
TitleCountOfAll(title) ==
  Cardinality({ i \in DOMAIN Products : Products[i].title = title })

\* the products of a catalog, each with a handle
HandleDocs ==
  { [type |-> "simple", ancestors |-> <<>>, isDeleted |-> FALSE, shopId |-> "shop",
     title |-> <<>>, handle |-> h] : h \in Texts }

\* the products of a catalog, each with a title
TitleDocs ==
  { [type |-> "simple", ancestors |-> <<>>, isDeleted |-> FALSE, shopId |-> "shop",
     title |-> t, handle |-> <<>>] : t \in Texts }

InitHandles ==
  /\ LoaderAtRest
  /\ Products \in [ProductIds -> HandleDocs]
  /\ frame = NoCall
  /\ events = <<>>
  /\ fibers = <<>>
  /\ Tags = <<>>

InitTitles ==
  /\ LoaderAtRest
  /\ Products \in [ProductIds -> TitleDocs]
  /\ frame = NoCall
  /\ events = <<>>
  /\ fibers = <<>>
  /\ Tags = <<>>

\* a helper has been called for a product with a title or handle
Called(op, id, text) ==
  [op |-> op, pc |-> "called", id |-> id, input |-> text, text |-> text,
   flag |-> FALSE, error |-> "none", ids |-> <<>>, granted |-> {}]

\* createHandle(productHandle, productId) is called, for a stored product or
\* for one not stored yet
CallCreateHandle ==
  /\ frame.pc \in {"returned", "thrown"}
  /\ \E productHandle \in Texts, productId \in CallIds :
       frame' = Called("createHandle", productId, productHandle)
  /\ events' = <<>>
  /\ UNCHANGED <<Products, fibers, Tags, loader>>

\* a variant that returns the renamed handle without the second look
CreateHandleWithoutRecheck ==
  /\ frame.op = "createHandle"
  /\ frame.pc = "called"
  /\ LET handle == Renamed(frame.text, HandleCount(frame.text, frame.id))
     IN  frame' = [frame EXCEPT !.pc = "returned", !.text = handle]
  /\ UNCHANGED <<Products, events, fibers, Tags, loader>>

\* lines 220-273, the body of createHandle: it returns the handle, or is
\* about to call itself with it and to return what that call returns
CreateHandle ==
  /\ frame.op = "createHandle"
  /\ frame.pc = "called"
  /\ LET handle == Renamed(frame.text, HandleCount(frame.text, frame.id))
         newHandleCount == HandleCount(handle, frame.id)
     IN  IF newHandleCount # 0
         THEN frame' = [frame EXCEPT !.pc = "recursing", !.text = handle]
         ELSE frame' = [frame EXCEPT !.pc = "returned", !.text = handle]
  /\ UNCHANGED <<Products, events, fibers, Tags, loader>>

\* line 269: createHandle(handle, productId), the call of createHandle by itself
RecurseCreateHandle ==
  /\ frame.op = "createHandle"
  /\ frame.pc = "recursing"
  /\ frame' = [frame EXCEPT !.pc = "called"]
  /\ UNCHANGED <<Products, events, fibers, Tags, loader>>

NextHandles ==
  \/ CallCreateHandle
  \/ CreateHandle
  \/ RecurseCreateHandle

SpecHandles == InitHandles /\ [][NextHandles]_vars

\* createTitle(newTitle, productId) is called, for a stored product or for
\* one not stored yet
CallCreateTitle ==
  /\ frame.pc \in {"returned", "thrown"}
  /\ \E newTitle \in Texts, productId \in CallIds :
       frame' = Called("createTitle", productId, newTitle)
  /\ events' = <<>>
  /\ UNCHANGED <<Products, fibers, Tags, loader>>

\* lines 162-209, the body of createTitle: it returns the title, or is about
\* to call itself with it and to return what that call returns
CreateTitle ==
  /\ frame.op = "createTitle"
  /\ frame.pc = "called"
  /\ LET title == Renamed(frame.text, TitleCount(frame.text, frame.id))
     IN  IF TitleCountOfAll(title) # 0
         THEN frame' = [frame EXCEPT !.pc = "recursing", !.text = title]
         ELSE frame' = [frame EXCEPT !.pc = "returned", !.text = title]
  /\ UNCHANGED <<Products, events, fibers, Tags, loader>>

\* line 206: createTitle(title, productId), the call of createTitle by itself
RecurseCreateTitle ==
  /\ frame.op = "createTitle"
  /\ frame.pc = "recursing"
  /\ frame' = [frame EXCEPT !.pc = "called"]
  /\ UNCHANGED <<Products, events, fibers, Tags, loader>>

NextTitles ==
  \/ CallCreateTitle
  \/ CreateTitle
  \/ RecurseCreateTitle

\* a call of createTitle runs on: a body that can be executed is executed,
\* and so is a call of createTitle by itself
FairSpecTitles ==
  /\ InitTitles
  /\ [][NextTitles]_vars
  /\ WF_vars(CreateTitle)
  /\ WF_vars(RecurseCreateTitle)

(***************************************************************************)
(* Properties of createHandle and createTitle.                             *)
(***************************************************************************)
\* C19: when createHandle(productHandle, productId) returns, no product with
\* an _id other than productId has the handle it returns.
C19_ReturnedHandleIsUnique ==
  frame.op = "createHandle" /\ frame.pc = "returned" =>
    \A i \in DOMAIN Products : i # frame.id => Products[i].handle # frame.text

\* createHandle has returned, for a handle that two other products have, a
\* handle it had to look for twice
C19_Witness ==
  /\ frame.op = "createHandle"
  /\ frame.pc = "returned"
  /\ HandleCount(frame.input, frame.id) = 2
  /\ HandleCount(Renamed(frame.input, 2), frame.id) > 0

\* C20: every call of createTitle returns, whatever the collection holds and
\* whatever title and product it is called for.
C20_CreateTitleTerminates ==
  (frame.op = "createTitle" /\ frame.pc \in {"called", "recursing"})
    ~> (frame.pc = "returned")

(***************************************************************************)
(* products/cloneVariant and products/cloneProduct.                        *)
(***************************************************************************)
SpaceDashCopy == <<" ", "-", " ", "c", "o", "p", "y">>

\* the documents of a catalog: the fields the cloning methods read and write
CatalogDocs(i) ==
  { [type |-> ty, ancestors |-> an, isDeleted |-> del, shopId |-> "shop",
     title |-> <<"a">>, handle |-> <<"a">>, isVisible |-> TRUE] :
      ty \in {"simple", "variant"}, an \in AncestorChoices(i), del \in BOOLEAN }

\* a catalog as products/createProduct and products/createVariant build it:
\* a product has no ancestors, a variant has its product, an option has its
\* product and its variant
WellFormed(ps) ==
  \A i \in DOMAIN ps :
    LET an == ps[i].ancestors
    IN  /\ ps[i].type = "simple" <=> an = <<>>
        /\ Len(an) >= 1 => ps[an[1]].type = "simple"
        /\ Len(an) = 2 => ps[an[2]].ancestors = <<an[1]>>

\* a catalog of products, variants and options, before any method is called
InitCatalog ==
  /\ LoaderAtRest
  /\ Products \in { ps \in [ProductIds -> UNION { CatalogDocs(i) : i \in ProductIds }] :
                       /\ \A i \in ProductIds : ps[i] \in CatalogDocs(i)
                       /\ WellFormed(ps) }
  /\ frame = NoCall
  /\ events = <<>>
  /\ fibers = <<>>
  /\ Tags = <<>>

\* a method returns the list of the _ids it inserted
ReturnedIds(op, id, ids) ==
  [op |-> op, pc |-> "returned", id |-> id, input |-> <<>>, text |-> <<>>,
   flag |-> FALSE, error |-> "none", ids |-> ids, granted |-> {}]

\* Random.id(): the n-th _id drawn by a call, none of them stored yet
RandomId(n) ==
  (CHOOSE m \in DOMAIN Products : \A i \in DOMAIN Products : i <= m) + n

\* ReactionProduct.isAncestorDeleted(doc, true): the document or one of its
\* ancestors is marked as deleted
isAncestorDeleted(doc) ==
  \/ doc.isDeleted
  \/ \E j \in 1..Len(doc.ancestors) :
       doc.ancestors[j] \in DOMAIN Products /\ Products[doc.ancestors[j]].isDeleted

\* a variant that puts the documents with more ancestors first
RECURSIVE sortByMostAncestors(_)
sortByMostAncestors(list) ==
  IF list = <<>> THEN <<>>
  ELSE LET most == CHOOSE n \in { Len(Products[list[j]].ancestors) : j \in 1..Len(list) } :
                     \A j \in 1..Len(list) : Len(Products[list[j]].ancestors) <= n
       IN  SelectSeq(list, LAMBDA i : Len(Products[i].ancestors) = most)
             \o sortByMostAncestors(SelectSeq(list, LAMBDA i : Len(Products[i].ancestors) # most))

\* _.sortBy(docs, (doc) => doc.ancestors.length): a stable sort
RECURSIVE sortByAncestors(_)
sortByAncestors(list) ==
  IF list = <<>> THEN <<>>
  ELSE LET least == CHOOSE n \in { Len(Products[list[j]].ancestors) : j \in 1..Len(list) } :
                      \A j \in 1..Len(list) : n <= Len(Products[list[j]].ancestors)
       IN  SelectSeq(list, LAMBDA i : Len(Products[i].ancestors) = least)
             \o sortByAncestors(SelectSeq(list, LAMBDA i : Len(Products[i].ancestors) # least))

\* ancestors.slice(0) with the first oldId, if any, overridden by newId
\* (indexOf and splice of lines 445-448)
SpliceAncestor(ancestors, oldId, newId) ==
  IF InArray(oldId, ancestors)
  THEN LET parentIndex == CHOOSE j \in 1..Len(ancestors) :
                            /\ ancestors[j] = oldId
                            /\ \A h \in 1..(j - 1) : ancestors[h] # oldId
       IN  [ancestors EXCEPT ![parentIndex] = newId]
  ELSE ancestors

\* the documents products/cloneVariant fetches for a variant
VariantsToClone(variantId) ==
  Fetched({ i \in DOMAIN Products :
              /\ Products[i].type = "variant"
              /\ \/ i = variantId
                 \/ InArray(variantId, Products[i].ancestors) /\ Products[i].isDeleted = FALSE })

\* the collection with documents inserted under new _ids
Inserted(docs) ==
  [i \in DOMAIN Products \cup DOMAIN docs |->
     IF i \in DOMAIN docs THEN docs[i] ELSE Products[i]]

\* lines 383-482, products/cloneVariant(productId, variantId), called by a
\* user to whom Reaction.hasPermission grants createProduct or does not
CloneVariant(variantId, granted) ==
  /\ events' = <<>>
  /\ IF variantId \notin DOMAIN Products
     THEN /\ frame' = Thrown("cloneVariant", variantId, "not-found")
          /\ UNCHANGED Products
     ELSE IF ~granted
     THEN /\ frame' = Thrown("cloneVariant", variantId, "access-denied")
          /\ UNCHANGED Products
     ELSE IF isAncestorDeleted(Products[variantId])
     THEN /\ frame' = Thrown("cloneVariant", variantId, "server-error")
          /\ UNCHANGED Products
     ELSE LET variant == Products[variantId]
              variants == VariantsToClone(variantId)
              variantNewId == RandomId(1)
              sortedVariants == sortByAncestors(variants)
              \* the _id of the clone made of the j-th sorted variant
              cloneId(j) ==
                IF sortedVariants[j] = variantId THEN variantNewId
                ELSE RandomId(1 + Cardinality({ h \in 1..j : sortedVariants[h] # variantId }))
              clone(j) ==
                LET sortedVariant == Products[sortedVariants[j]]
                IN  IF sortedVariants[j] = variantId
                    THEN [sortedVariant EXCEPT !.title = @ \o SpaceDashCopy]
                    ELSE [variant EXCEPT
                            !.ancestors = SpliceAncestor(sortedVariant.ancestors,
                                                         variantId, variantNewId),
                            !.title = sortedVariant.title]
              newIds == [j \in 1..Len(sortedVariants) |-> cloneId(j)]
          IN  /\ Cardinality(DOMAIN Products) + Len(variants) <= MaxStored
              /\ Products' = Inserted([i \in { newIds[j] : j \in 1..Len(newIds) } |->
                                         clone(CHOOSE j \in 1..Len(newIds) : newIds[j] = i)])
              /\ frame' = ReturnedIds("cloneVariant", variantId, newIds)
  /\ UNCHANGED <<fibers, Tags, loader>>

\* a client calls the method, for a stored document or for none
CallCloneVariant ==
  \E variantId \in 1..(MaxStored + 1), granted \in BOOLEAN : CloneVariant(variantId, granted)

SpecCloneVariant == InitCatalog /\ [][CallCloneVariant]_vars

(***************************************************************************)
(* Properties of products/cloneVariant.                                    *)
(***************************************************************************)
\* C21: a call of products/cloneVariant for a variant that returns has
\* inserted the documents whose _ids it returns, in that order; the first is
\* the clone of the variant itself, with the ancestors of the variant, and
\* every later one is the clone of a descendant, each of another one, with
\* the ancestors of that descendant where the _id of the variant is
\* replaced by the _id of the first clone; no clone has the variant among
\* its ancestors.
C21_CloneVariantParentFirst ==
  [][(frame'.op = "cloneVariant" /\ frame'.pc = "returned"
        /\ Products[frame'.id].type = "variant")
       => LET variantId == frame'.id
              ids == frame'.ids
              descendants == { d \in DOMAIN Products :
                                 InArray(variantId, Products[d].ancestors) }
          IN  /\ ids # <<>>
              /\ { ids[j] : j \in 1..Len(ids) } = DOMAIN Products' \ DOMAIN Products
              /\ \A i, j \in 1..Len(ids) : ids[i] = ids[j] => i = j
              /\ Products'[ids[1]].ancestors = Products[variantId].ancestors
              /\ \E original \in [2..Len(ids) -> descendants] :
                   /\ \A i, j \in 2..Len(ids) : original[i] = original[j] => i = j
                   /\ \A j \in 2..Len(ids) :
                        Products'[ids[j]].ancestors =
                          [h \in 1..Len(Products[original[j]].ancestors) |->
                             IF Products[original[j]].ancestors[h] = variantId
                             THEN ids[1]
                             ELSE Products[original[j]].ancestors[h]]
              /\ \A j \in 1..Len(ids) : ~InArray(variantId, Products'[ids[j]].ancestors)
              /\ \A i \in DOMAIN Products : Products'[i] = Products[i]]_vars

\* a variant and its option have been cloned: two documents were inserted,
\* the second with the first as its last ancestor
C21_Witness ==
  /\ frame.op = "cloneVariant"
  /\ frame.pc = "returned"
  /\ Len(frame.ids) = 2
  /\ Len(Products[frame.ids[2]].ancestors) = 2
  /\ Products[frame.ids[2]].ancestors[2] = frame.ids[1]

(***************************************************************************)
(* products/cloneProduct.                                                  *)
(***************************************************************************)
\* Random.id() while a call is inserting into the collection ps
RandomIdAfter(ps) == (CHOOSE m \in DOMAIN ps : \A i \in DOMAIN ps : i <= m) + 1

\* Reaction.getSlug(title), for the titles of the catalog, which are slugs
getSlug(title) == title

\* createTitle(newTitle, productId) over the collection ps: what the calls
\* of createTitle by itself return in the end
RECURSIVE createTitle(_, _, _)
createTitle(ps, newTitle, productId) ==
  LET titleCount == Cardinality({ i \in DOMAIN ps : ps[i].title = newTitle /\ i # productId })
      title == Renamed(newTitle, titleCount)
  IN  IF Cardinality({ i \in DOMAIN ps : ps[i].title = title }) # 0
      THEN createTitle(ps, title, productId)
      ELSE title

\* createHandle(productHandle, productId) over the collection ps
RECURSIVE createHandle(_, _, _)
createHandle(ps, productHandle, productId) ==
  LET handleCount ==
        Cardinality({ i \in DOMAIN ps : ps[i].handle = productHandle /\ i # productId })
      handle == Renamed(productHandle, handleCount)
      newHandleCount ==
        Cardinality({ i \in DOMAIN ps : ps[i].handle = handle /\ i # productId })
  IN  IF newHandleCount # 0 THEN createHandle(ps, handle, productId) ELSE handle

\* a variant that looks the _id up among the new _ids
getIdsByNewId(pool, id) == SelectSeq(pool, LAMBDA pair : pair.newId = id)

\* getIds(id): the pairs of the pool made for an old _id
getIds(pool, id) == SelectSeq(pool, LAMBDA pair : pair.oldId = id)

\* buildAncestors(ancestors): the new _id of the first pair of each ancestor
buildAncestors(pool, ancestors) ==
  [j \in 1..Len(ancestors) |-> getIds(pool, ancestors[j])[1].newId]

\* lines 733-750: one variant of the product at hand is cloned; reading newId
\* of a pair that is not in the pool throws a TypeError, which ends the call
CloneOneVariant(acc, variantId) ==
  IF acc.error # "none" THEN acc
  ELSE LET variant == acc.ps[variantId]
           variantNewId == RandomIdAfter(acc.ps)
           pool == Append(acc.pool, [oldId |-> variantId, newId |-> variantNewId])
       IN  IF \E j \in 1..Len(variant.ancestors) : getIds(pool, variant.ancestors[j]) = <<>>
           THEN [acc EXCEPT !.pool = pool, !.error = "TypeError"]
           ELSE [ps |-> [i \in DOMAIN acc.ps \cup {variantNewId} |->
                           IF i = variantNewId
                           THEN [variant EXCEPT
                                   !.ancestors = buildAncestors(pool, variant.ancestors)]
                           ELSE acc.ps[i]],
                 pool |-> pool,
                 results |-> Append(acc.results, variantNewId),
                 error |-> "none"]

RECURSIVE CloneVariantsOf(_, _)
CloneVariantsOf(acc, sortedVariants) ==
  IF sortedVariants = <<>> THEN acc
  ELSE CloneVariantsOf(CloneOneVariant(acc, Head(sortedVariants)), Tail(sortedVariants))

\* lines 699-751: one product of the list is cloned, then its variants
CloneOneProduct(acc, productId) ==
  IF acc.error # "none" THEN acc
  ELSE LET product == acc.ps[productId]
           productNewId == RandomIdAfter(acc.ps)
           pool == Append(acc.pool, [oldId |-> productId, newId |-> productNewId])
           title == IF product.title # <<>>
                    THEN createTitle(acc.ps, product.title, productNewId)
                    ELSE product.title
           handle == IF product.title # <<>>
                     THEN createHandle(acc.ps, getSlug(title), productNewId)
                     ELSE <<>>
           newProduct == [product EXCEPT !.isVisible = FALSE, !.title = title,
                                         !.handle = handle]
           ps == [i \in DOMAIN acc.ps \cup {productNewId} |->
                    IF i = productNewId THEN newProduct ELSE acc.ps[i]]
           variants == Fetched({ i \in DOMAIN ps :
                                   /\ InArray(productId, ps[i].ancestors)
                                   /\ ps[i].type = "variant" })
       IN  CloneVariantsOf([ps |-> ps, pool |-> pool,
                            results |-> Append(acc.results, productNewId),
                            error |-> "none"],
                           sortByAncestors(variants))

RECURSIVE CloneProducts(_, _)
CloneProducts(acc, products) ==
  IF products = <<>> THEN acc
  ELSE CloneProducts(CloneOneProduct(acc, Head(products)), Tail(products))

\* a method is through with the array of _ids it was passed
Finished(op, passed, error, ids) ==
  [op |-> op, pc |-> IF error = "none" THEN "returned" ELSE "thrown", id |-> 0,
   input |-> passed, text |-> <<>>, flag |-> FALSE, error |-> error, ids |-> ids,
   granted |-> {}]

\* lines 628-753, products/cloneProduct(productOrArray), passed an array of
\* _ids by a user to whom Reaction.hasPermission grants createProduct for
\* the shops or does not
CloneProduct(productOrArray, granted) ==
  /\ events' = <<>>
  /\ IF ~granted
     THEN /\ frame' = Thrown("cloneProduct", 0, "access-denied")
          /\ UNCHANGED Products
     ELSE LET products == Fetched({ i \in DOMAIN Products : InArray(i, productOrArray) })
              done == CloneProducts([ps |-> Products, pool |-> <<>>, results |-> <<>>,
                                     error |-> "none"], products)
          IN  /\ Cardinality(DOMAIN done.ps) <= MaxStored
              /\ Products' = done.ps
              /\ frame' = Finished("cloneProduct", productOrArray, done.error, done.results)
  /\ UNCHANGED <<fibers, Tags, loader>>

\* a client calls the method with _ids of the documents of the catalog
CallCloneProduct ==
  \E passed \in SUBSET ProductIds, granted \in BOOLEAN :
    CloneProduct(Fetched(passed), granted)

\* the method reads isDeleted nowhere: the catalogs it starts from differ in
\* the deleted variants only
InitCloneProduct ==
  /\ InitCatalog
  /\ \A i \in ProductIds : Products[i].isDeleted => Products[i].type = "variant"

SpecCloneProduct == InitCloneProduct /\ [][CallCloneProduct]_vars

(***************************************************************************)
(* Properties of products/cloneProduct.                                    *)
(***************************************************************************)
\* C22: a call of products/cloneProduct that is passed products and is not
\* denied returns, and has inserted one document under a new _id for each
\* product passed and for each variant that has one of them among its
\* ancestors, and no other; the clone of a product has isVisible = false;
\* the ancestors of the clone of a variant are the clones, made by this
\* call, of the ancestors of the variant, so none of them is the _id of a
\* document stored before the call, and none is undefined.
C22_CloneProductAncestorsAreClones ==
  [][(/\ frame'.op = "cloneProduct"
      /\ frame'.error # "access-denied"
      /\ \A j \in 1..Len(frame'.input) : Products[frame'.input[j]].type = "simple")
       => LET passed == { frame'.input[j] : j \in 1..Len(frame'.input) }
              originals == passed \cup
                { v \in DOMAIN Products :
                    /\ Products[v].type = "variant"
                    /\ \E q \in passed : InArray(q, Products[v].ancestors) }
              new == DOMAIN Products' \ DOMAIN Products
          IN  /\ frame'.pc = "returned"
              /\ { frame'.ids[j] : j \in 1..Len(frame'.ids) } = new
              /\ \A i \in DOMAIN Products : Products'[i] = Products[i]
              /\ \A n \in new : \A j \in 1..Len(Products'[n].ancestors) :
                   Products'[n].ancestors[j] \in new
              /\ \E cloneOf \in [originals -> new] :
                   /\ \A n \in new : \E o \in originals : cloneOf[o] = n
                   /\ \A o, q \in originals : cloneOf[o] = cloneOf[q] => o = q
                   /\ \A o \in passed :
                        /\ Products'[cloneOf[o]].isVisible = FALSE
                        /\ Products'[cloneOf[o]].type = "simple"
                   /\ \A o \in originals :
                        Products'[cloneOf[o]].ancestors =
                          [j \in 1..Len(Products[o].ancestors) |->
                             cloneOf[Products[o].ancestors[j]]]]_vars

\* a product has been cloned with its variant and its option
C22_Witness ==
  /\ frame.op = "cloneProduct"
  /\ frame.pc = "returned"
  /\ Len(frame.ids) = 3
  /\ Products[frame.ids[3]].ancestors = <<frame.ids[1], frame.ids[2]>>

(***************************************************************************)
(* products/archiveProduct.                                                *)
(***************************************************************************)
\* the shops of the marketplace
Shops == {"shop", "other"}

\* the arrays of _ids a client passes
ArraysOfIds == UNION { [1..n -> CallIds] : n \in 0..MaxPassed }

\* a catalog of the products of several shops: createProduct gives a product
\* the shop of the moment, createVariant gives a variant the shop of its
\* product
InitShops ==
  /\ LoaderAtRest
  /\ Products \in
       { ps \in [ProductIds -> UNION { { [d EXCEPT !.shopId = s] : d \in CatalogDocs(i),
                                                                  s \in Shops } :
                                       i \in ProductIds }] :
           /\ \A i \in ProductIds : [ps[i] EXCEPT !.shopId = "shop"] \in CatalogDocs(i)
           /\ WellFormed(ps)
           /\ \A i \in ProductIds :
                Len(ps[i].ancestors) >= 1 => ps[i].shopId = ps[ps[i].ancestors[1]].shopId }
  /\ frame = NoCall
  /\ events = <<>>
  /\ fibers = <<>>
  /\ Tags = <<>>

\* the event emitted for a document the method flagged as deleted
ArchiveEvent(id) ==
  IF Products[id].type = "variant"
  THEN SoftDeleteEvent(id)
  ELSE [name |-> "afterProductSoftDelete", id |-> id,
        product |-> [Products[id] EXCEPT !.isDeleted = TRUE]]

\* the method is through: the array it was passed, the shops the caller is
\* granted createProduct for, the _ids it selected, and whether it returns
\* their number
Archived(productId, granted, ids) ==
  [op |-> "archiveProduct", pc |-> "returned", id |-> 0, input |-> productId,
   text |-> <<>>, flag |-> Len(ids) > 0, error |-> "none", ids |-> ids,
   granted |-> granted]

\* lines 789-903, products/archiveProduct(productId), passed an array of
\* _ids by a user whom Reaction.hasPermission grants createProduct for the
\* shops of granted; a single _id is the array of that _id
ArchiveProduct(productId, granted) ==
  /\ IF productId = <<>> \/ productId[1] \notin DOMAIN Products
     THEN /\ frame' = Thrown("archiveProduct", 0, "not-found")
          /\ events' = <<>>
          /\ UNCHANGED Products
     ELSE IF Products[productId[1]].shopId \notin granted
     THEN /\ frame' = Thrown("archiveProduct", productId[1], "access-denied")
          /\ events' = <<>>
          /\ UNCHANGED Products
     ELSE LET productsWithVariants ==
                Fetched({ i \in DOMAIN Products :
                            /\ ~Products[i].isDeleted
                            /\ \/ InArray(i, productId)
                               \/ \E j \in 1..Len(productId) :
                                    InArray(productId[j], Products[i].ancestors) })
          IN  /\ Products' = [i \in DOMAIN Products |->
                                IF InArray(i, productsWithVariants)
                                THEN [Products[i] EXCEPT !.isDeleted = TRUE]
                                ELSE Products[i]]
              /\ events' = [j \in 1..Len(productsWithVariants) |->
                              ArchiveEvent(productsWithVariants[j])]
              /\ frame' = Archived(productId, granted, productsWithVariants)
  /\ UNCHANGED <<fibers, Tags, loader>>

\* a client calls the method
CallArchiveProduct ==
  \E productId \in ArraysOfIds, granted \in SUBSET Shops : ArchiveProduct(productId, granted)

SpecArchive == InitShops /\ [][CallArchiveProduct]_vars

(***************************************************************************)
(* Properties of products/archiveProduct.                                  *)
(***************************************************************************)
\* C23: every document a call of products/archiveProduct flags as deleted
\* belongs to a shop the caller has the createProduct permission for, also
\* when the array passed holds products of several shops.
C23_ArchivesOnlyPermittedShops ==
  [][frame'.op = "archiveProduct"
       => \A i \in DOMAIN Products :
            (Products'[i].isDeleted /\ ~Products[i].isDeleted)
              => Products[i].shopId \in frame'.granted]_vars

(***************************************************************************)
(* products/updateProductTags.  The method unblocks, and each of its reads *)
(* and writes of a collection is a step of its own: other calls run in     *)
(* between.                                                                *)
(***************************************************************************)
TagIds == 1..MaxTags

\* the tag names a client passes
TagNames == {<<"a">>, <<"b">>}

\* newTag of a call
NewTag(tagName) == [slug |-> getSlug(tagName), name |-> tagName]

\* products without tags, and some tags with slugs of their own
InitTags ==
  /\ LoaderAtRest
  /\ Products = [i \in ProductIds |-> [type |-> "simple", shopId |-> "shop",
                                       hashtags |-> <<>>]]
  /\ \E ids \in SUBSET TagIds :
       Tags \in { ts \in [ids -> { NewTag(name) : name \in TagNames }] :
                    \A t, u \in ids : ts[t].slug = ts[u].slug => t = u }
  /\ frame = NoCall
  /\ events = <<>>
  /\ fibers = <<>>

\* a call that has unblocked: its arguments, how far it is, and the tag it
\* found or created
Fiber(productId, tagName, tagId, at, tag) ==
  [productId |-> productId, tagName |-> tagName, tagId |-> tagId, pc |-> at, tag |-> tag]

\* the calls in flight without the n-th
Returns(n) == SubSeq(fibers, 1, n - 1) \o SubSeq(fibers, n + 1, Len(fibers))

\* the hashtags of all products together
RECURSIVE NumberOfHashtags(_)
NumberOfHashtags(ids) ==
  IF ids = {} THEN 0
  ELSE LET i == CHOOSE i \in ids : TRUE
       IN  Len(Products[i].hashtags) + NumberOfHashtags(ids \ {i})

\* lines 1000-1015: the arguments are checked, the product is looked up, the
\* permission is checked, and the method unblocks
UpdateProductTags(productId, tagName, tagId, granted) ==
  /\ Len(fibers) < MaxCalls
  /\ NumberOfHashtags(DOMAIN Products) + Len(fibers) < MaxHashtags
  /\ IF productId \notin DOMAIN Products
     THEN /\ frame' = Thrown("updateProductTags", productId, "not-found")
          /\ UNCHANGED fibers
     ELSE IF ~granted
     THEN /\ frame' = Thrown("updateProductTags", productId, "access-denied")
          /\ UNCHANGED fibers
     ELSE /\ fibers' = Append(fibers, Fiber(productId, tagName, tagId, "unblocked", 0))
          /\ UNCHANGED frame
  /\ UNCHANGED <<Products, events, Tags, loader>>

\* a client calls the method; tagId 0 is null
CallUpdateProductTags ==
  \E productId \in CallIds, tagName \in TagNames, tagId \in {0} \cup TagIds,
     granted \in BOOLEAN :
    UpdateProductTags(productId, tagName, tagId, granted)

\* lines 1022-1026, 1045: Tags.findOne({ slug }), and the branch taken
FindTag(n) ==
  /\ fibers[n].pc = "unblocked"
  /\ LET existing == { t \in DOMAIN Tags : Tags[t].slug = getSlug(fibers[n].tagName) }
     IN  fibers' =
           [fibers EXCEPT ![n] =
              IF existing # {}
              THEN [[fibers[n] EXCEPT !.pc = "counting"] EXCEPT
                      !.tag = CHOOSE t \in existing : \A u \in existing : t <= u]
              ELSE IF fibers[n].tagId # 0 THEN [fibers[n] EXCEPT !.pc = "renaming"]
              ELSE [fibers[n] EXCEPT !.pc = "creating"]]
  /\ UNCHANGED <<Products, frame, events, Tags, loader>>

\* lines 1027-1033: the products with this _id and this tag are counted
CountProducts(n) ==
  /\ fibers[n].pc = "counting"
  /\ IF InArray(fibers[n].tag, Products[fibers[n].productId].hashtags)
     THEN /\ fibers' = Returns(n)
          /\ frame' = Thrown("updateProductTags", fibers[n].productId, "server-error")
     ELSE /\ fibers' = [fibers EXCEPT ![n] = [fibers[n] EXCEPT !.pc = "pushing"]]
          /\ UNCHANGED frame
  /\ UNCHANGED <<Products, events, Tags, loader>>

\* lines 1034-1045 and 1059-1072, updateCatalogProduct with $push
PushTag(n) ==
  /\ fibers[n].pc = "pushing"
  /\ Products' = [Products EXCEPT ![fibers[n].productId].hashtags = Append(@, fibers[n].tag)]
  /\ fibers' = Returns(n)
  /\ frame' = ReturnedFlag("updateProductTags", fibers[n].productId, TRUE)
  /\ UNCHANGED <<events, Tags, loader>>

\* line 1046: Tags.update(tagId, { $set: newTag })
RenameTag(n) ==
  /\ fibers[n].pc = "renaming"
  /\ Tags' = IF fibers[n].tagId \in DOMAIN Tags
             THEN [Tags EXCEPT ![fibers[n].tagId] = NewTag(fibers[n].tagName)]
             ELSE Tags
  /\ fibers' = Returns(n)
  /\ frame' = ReturnedFlag("updateProductTags", fibers[n].productId,
                           fibers[n].tagId \in DOMAIN Tags)
  /\ UNCHANGED <<Products, events, loader>>

\* lines 1052-1057, Meteor.call("shop/createTag", tagName, false): a tag is
\* inserted and its _id returned, or something that is no string is returned
CreateTag(n) ==
  /\ fibers[n].pc = "creating"
  /\ \/ \E newTagId \in TagIds \ DOMAIN Tags :
          /\ Tags' = [t \in DOMAIN Tags \cup {newTagId} |->
                        IF t = newTagId THEN NewTag(fibers[n].tagName) ELSE Tags[t]]
          /\ fibers' = [fibers EXCEPT ![n] = [[fibers[n] EXCEPT !.pc = "pushing"] EXCEPT !.tag = newTagId]]
          /\ UNCHANGED frame
     \/ /\ fibers' = Returns(n)
        /\ frame' = ReturnedFlag("updateProductTags", fibers[n].productId, FALSE)
        /\ UNCHANGED Tags
  /\ UNCHANGED <<Products, events, loader>>

NextTags ==
  \/ CallUpdateProductTags
  \/ \E n \in 1..Len(fibers) : FindTag(n)
  \/ \E n \in 1..Len(fibers) : CountProducts(n)
  \/ \E n \in 1..Len(fibers) : PushTag(n)
  \/ \E n \in 1..Len(fibers) : RenameTag(n)
  \/ \E n \in 1..Len(fibers) : CreateTag(n)

SpecTags == InitTags /\ [][NextTags]_vars

(***************************************************************************)
(* Properties of products/updateProductTags.                               *)
(***************************************************************************)
\* C24: the hashtags of a product never hold the same tag _id twice, also
\* when calls of products/updateProductTags for the same product and the
\* same tag name run at the same time.
C24_NoTagTwice ==
  \A i \in DOMAIN Products :
    \A j, l \in 1..Len(Products[i].hashtags) :
      Products[i].hashtags[j] = Products[i].hashtags[l] => j = l

=============================================================================
